---- MODULE Spec2Model ----
(***************************************************************************)
(* Model of the Trackdechets registry export tool.                         *)
(*   src/trackdechets_client.py  the GraphQL client (TrackdechetsClient)   *)
(*   src/app.py                  the Streamlit script (main,               *)
(*                               fetch_registry, filter_by_date)           *)
(* One script run of main() is a walk of pc from "idle" back to "idle";    *)
(* every API request is one step, whose response is chosen by the server.  *)
(* Strings that the code inspects are sequences: a message is a sequence   *)
(* of words, an identifier a sequence of characters, "" is << >>.          *)
(***************************************************************************)
EXTENDS Integers, Sequences, FiniteSets, TLC

VARIABLES
    \* st.session_state
    companies, companies_token, registry_cache, last_export_by_type,
    \* the server: the status of every export job it created
    jobStatus,
    \* inputs and locals of the current run of main()
    pc, token, today, siret, incoming, outgoing, export_start, export_end,
    \* locals of the current call of fetch_registry / generate_registry_export
    registry_type, variant, last_error, export, reuse_download, status,
    elapsed, download_url, file_bytes, result,
    \* what the current fetch_registry call did (observation only): the
    \* generation requests sent and what each raised, the outcome of
    \* generate_registry_export, the calls made, the message displayed, how
    \* the call ended, the id the recovery took from the cache, the time at
    \* which a terminal status was seen, the status the job had on the server
    \* when its file was downloaded
    sent, generated, statusCalls, urlCalls, downloads, shown, fetchOutcome,
    cachedId, observedAt, downloadedStatus,
    \* what the current run did (observation only)
    networkCalled, runOutcome,
    \* the data of the two download buttons of the current run
    offered,
    \* a call of one of the functions of the program, and what it returned
    args, returned

sessionVars == <<companies, companies_token, registry_cache, last_export_by_type>>
runVars == <<token, today, siret, incoming, outgoing, export_start, export_end>>
fetchVars == <<registry_type, variant, last_error, export, reuse_download, status,
               elapsed, download_url, file_bytes, result>>
obsVars == <<sent, statusCalls, urlCalls, downloads, shown, fetchOutcome,
             generated, cachedId, observedAt, downloadedStatus>>
callVars == <<args, returned>>
vars == <<sessionVars, jobStatus, pc, runVars, fetchVars, obsVars, networkCalled, runOutcome,
          offered, callVars>>

-----------------------------------------------------------------------------
(* Bounds of the model *)

\* export jobs the server creates in one session
MaxJobs == 2
\* seconds of request latency, in total, over the status polls of one fetch
MaxDelay == 1

-----------------------------------------------------------------------------
(* Values *)

None == [none |-> TRUE]

Tokens == {"t1", "t2"}

\* dt.date values are <<year, month, day>>
DEFAULT_START_DATE == <<2001, 1, 1>>

\* the days on which the script runs
Days == {<<2026, 11, 6>>}

DateLE(a, b) ==
    \/ a[1] < b[1]
    \/ a[1] = b[1] /\ a[2] < b[2]
    \/ a[1] = b[1] /\ a[2] = b[2] /\ a[3] <= b[3]

D(s) == [i \in 1..14 |-> s]
SiretA == D("1")
SiretB == D("2")
\* 13 digits only
SiretShort == [i \in 1..13 |-> "3"]

\* 14 times the character U+00B2 (superscript two), written "sup2"
SiretSuperscript == D("sup2")

\* the characters c of the model with c.isdigit(): str.isdigit holds of the
\* decimal digits and of the other characters of Unicode numeric type Digit
Digits == {"0", "1", "2", "3", "4", "5", "6", "7", "8", "9", "sup2"}

REGISTRY_TYPES == {"OUTGOING", "INCOMING"}

\* A table (pd.DataFrame) is [columns, rows]: the headers, each a string of
\* characters, and the rows, each a sequence of cells, one per column.  A
\* cell is a date and time, a text or a blank.
Table(columns, rows) == [columns |-> columns, rows |-> rows]
DateTimeCell(date, hour) == [kind |-> "datetime", date |-> date, hour |-> hour]
TextCell(text) == [kind |-> "text", text |-> text]
BlankCell == [kind |-> "blank"]

TerminalStatuses == {"SUCCESSFUL", "FAILED", "CANCELED"}
Statuses == {"PENDING"} \cup TerminalStatuses

\* the variants list of generate_registry_export: the date-range key names
variants == << {"gte", "lte"}, {"_gte", "_lte"} >>

timeout_seconds == 180
poll_sleep == 5
\* the timeout of the requests.post of _post
post_timeout == 60
Needle == <<"moins", "de", "5", "minutes">>

-----------------------------------------------------------------------------
(* Pure functions of the code *)

to_iso_datetime(date_value, end_of_day) ==
    IF end_of_day THEN <<date_value, 23, 59, 59, "Z">>
                  ELSE <<date_value, 0, 0, 0, "Z">>

\* needle in message, for sequences of words
Contains(needle, message) ==
    \E i \in 0..(Len(message) - Len(needle)) :
        \A k \in 1..Len(needle) : message[i + k] = needle[k]

\* the test of fetch_registry on str(exc)
IsCooldownConflict(message) == Contains(Needle, message)

\* "; ".join(messages)
RECURSIVE Join(_)
Join(messages) ==
    IF Len(messages) = 0 THEN << >>
    ELSE IF Len(messages) = 1 THEN messages[1]
    ELSE messages[1] \o <<";">> \o Join(Tail(messages))

\* IsTerminal with CANCELED left out of the set
IsTerminalWithoutCanceled(s) == s \in {"SUCCESSFUL", "FAILED"}

\* the status set that ends the poll loop
IsTerminal(s) == s \in {"SUCCESSFUL", "FAILED", "CANCELED"}

\* TimedOut with >= in place of >
TimedOutAtBudget(e) == e >= timeout_seconds

\* the loop's budget test: time.time() - start_time > timeout_seconds
TimedOut(e) == e > timeout_seconds

-----------------------------------------------------------------------------
(* src/trackdechets_client.py *)

\* An HTTP exchange as the server and the network decide it:
\*   transport  requests.post / requests.get raised (connection error, timeout)
\*   http_ok    the status is 2xx (raise_for_status does not raise)
\*   is_json    the body parses as JSON
\*   errors     the "errors" array of the body: a sequence of messages
\*   data       the "data" object of the body
Response(transport, http_ok, is_json, errors, data) ==
    [transport |-> transport, http_ok |-> http_ok, is_json |-> is_json,
     errors |-> errors, data |-> data]

TransportFailure == Response(TRUE, FALSE, FALSE, << >>, None)
HttpError == Response(FALSE, FALSE, FALSE, << >>, None)
NonJson == Response(FALSE, TRUE, FALSE, << >>, None)
GraphQLErrors(errors) == Response(FALSE, TRUE, TRUE, errors, None)
Data(data) == Response(FALSE, TRUE, TRUE, << >>, data)

\* the outcome of a client call: the exception it raises, or its value
Raise(kind, message) == [exc |-> kind, message |-> message, value |-> None]
Return(value) == [exc |-> "none", message |-> << >>, value |-> value]

\* TrackdechetsClient._post: requests.post is called outside any try block, so
\* what it raises leaves _post as it is
_post(response) ==
    IF response.transport THEN Raise("RequestException", <<"connection", "failed">>)
    ELSE IF ~response.http_ok THEN Raise("TrackdechetsError", <<"HTTP", "error:">>)
    ELSE IF ~response.is_json THEN Raise("TrackdechetsError", <<"Reponse", "non-JSON:">>)
    ELSE IF response.errors # << >> THEN Raise("TrackdechetsError", Join(response.errors))
    ELSE Return(response.data)

\* TrackdechetsClient.download_file(url): requests.get is called outside the
\* try block too; an empty url makes it raise before any request is sent
download_file(url, response) ==
    IF url = << >> \/ response.transport
        THEN Raise("RequestException", <<"connection", "failed">>)
    ELSE IF ~response.http_ok THEN Raise("TrackdechetsError", <<"Download", "error:">>)
    ELSE Return(response.data)

\* code points of the characters the model uses
Ord(c) ==
    CASE c = "1" -> 49 [] c = "2" -> 50 [] c = "3" -> 51
      [] c = "A" -> 65 [] c = "B" -> 66 [] c = "a" -> 97 [] c = "b" -> 98
      [] c = "sup2" -> 178

UpperCase ==
    <<"A", "B", "C", "D", "E", "F", "G", "H", "I", "J", "K", "L", "M",
      "N", "O", "P", "Q", "R", "S", "T", "U", "V", "W", "X", "Y", "Z", "E_acute">>
LowerCase ==
    <<"a", "b", "c", "d", "e", "f", "g", "h", "i", "j", "k", "l", "m",
      "n", "o", "p", "q", "r", "s", "t", "u", "v", "w", "x", "y", "z", "e_acute">>

\* the lower-case form of a character; "e_acute" is U+00E9, "E_acute" U+00C9
LowerChar(c) ==
    IF \E i \in 1..Len(UpperCase) : UpperCase[i] = c
        THEN LowerCase[CHOOSE i \in 1..Len(UpperCase) : UpperCase[i] = c]
        ELSE c

\* str.lower
lower(s) == [i \in 1..Len(s) |-> LowerChar(s[i])]

\* s < t for strings
RECURSIVE StrLess(_, _)
StrLess(s, t) ==
    IF Len(t) = 0 THEN FALSE
    ELSE IF Len(s) = 0 THEN TRUE
    ELSE IF s[1] # t[1] THEN Ord(s[1]) < Ord(t[1])
    ELSE StrLess(Tail(s), Tail(t))

\* KeyLess without the lower(): the key (item.name, item.siret)
KeyLessCaseSensitive(x, y) ==
    \/ StrLess(x.name, y.name)
    \/ x.name = y.name /\ StrLess(x.siret, y.siret)

\* the sort key of list_my_companies: (item.name.lower(), item.siret)
KeyLess(x, y) ==
    \/ StrLess(lower(x.name), lower(y.name))
    \/ lower(x.name) = lower(y.name) /\ StrLess(x.siret, y.siret)

\* list.sort is stable: an item goes after the items whose key is not greater
RECURSIVE InsertSorted(_, _)
InsertSorted(x, sorted) ==
    IF Len(sorted) = 0 THEN <<x>>
    ELSE IF KeyLess(x, Head(sorted)) THEN <<x>> \o sorted
    ELSE <<Head(sorted)>> \o InsertSorted(x, Tail(sorted))

RECURSIVE SortByKey(_)
SortByKey(items) ==
    IF Len(items) = 0 THEN << >>
    ELSE InsertSorted(items[Len(items)], SortByKey(SubSeq(items, 1, Len(items) - 1)))

CompanyAccess(name, siret_) == [name |-> name, siret |-> siret_]

\* the loop of list_my_companies over the "companies" array of the response:
\* an entry is [name, siret], "" standing for a missing or null field
RECURSIVE KeepWithSiret(_)
KeepWithSiret(raw) ==
    IF Len(raw) = 0 THEN << >>
    ELSE LET company == Head(raw)
         IN  IF company.siret = << >> THEN KeepWithSiret(Tail(raw))
             ELSE <<CompanyAccess(company.name, company.siret)>>
                      \o KeepWithSiret(Tail(raw))

\* TrackdechetsClient.list_my_companies
list_my_companies(raw) == SortByKey(KeepWithSiret(raw))

\* AfterAttempt with the return statement moved out of the loop: every
\* variant is sent, whatever the first one gave
AfterAttemptNoReturn(i, raised) ==
    IF i < Len(variants) THEN "continue"
    ELSE IF raised THEN "raise"
    ELSE "return"

\* what generate_registry_export does after attempt i of its loop over
\* variants: return the export, go on with the next variant, or raise last_error
AfterAttempt(i, raised) ==
    IF ~raised THEN "return"
    ELSE IF i < Len(variants) THEN "continue"
    ELSE "raise"

\* ExceptHandler that keeps the error of the first attempt that raised
ExceptHandlerKeepsFirst(previous, raised) ==
    IF raised.exc # "TrackdechetsError" \/ previous.exc # "none" THEN previous ELSE raised

\* last_error after an attempt of generate_registry_export:
\* "except TrackdechetsError as exc: last_error = exc"
ExceptHandler(previous, raised) ==
    IF raised.exc = "TrackdechetsError" THEN raised ELSE previous

RegistryExport(export_id, status_) == [export_id |-> export_id, status |-> status_]

-----------------------------------------------------------------------------
(* What the server may answer *)

OtherMessage == <<"Forbidden">>
CooldownMessage == <<"Export", "deja", "genere", "il", "y", "a", "moins", "de", "5", "minutes">>

ErrorResponses == {TransportFailure, HttpError, NonJson, GraphQLErrors(<<OtherMessage>>)}

\* me.companies: unsorted, with an entry without siret and one of 13 digits
CompaniesResponse ==
    << [name |-> <<"b">>, siret |-> SiretB], [name |-> <<"A">>, siret |-> SiretA],
       [name |-> <<"a">>, siret |-> << >>], [name |-> << >>, siret |-> SiretShort] >>

\* me.companies of an account whose only establishment has an identifier of
\* 14 superscript digits
SuperscriptResponse == << [name |-> <<"b">>, siret |-> SiretSuperscript] >>

ListResponses ==
    ErrorResponses \cup {Data(<< >>), Data(CompaniesResponse), Data(SuperscriptResponse)}

\* an export id is a one-character string; the server numbers its jobs
JobOf(export_id) == export_id[1]

\* generateRegistryV2Export: an error, a new job in any status, or no id
GenerateResponses ==
    {TransportFailure, GraphQLErrors(<<OtherMessage>>),
     GraphQLErrors(<<CooldownMessage>>), GraphQLErrors(<<OtherMessage, CooldownMessage>>)}
    \cup {Data(RegistryExport(<< >>, "PENDING"))}
    \cup {Data(RegistryExport(<<Len(jobStatus) + 1>>, s)) :
              s \in IF Len(jobStatus) < MaxJobs THEN Statuses ELSE {}}

\* The status of a job whose id the session no longer holds cannot be asked
\* for again: the model forgets it
Forget(statuses, cache) ==
    [j \in 1..Len(statuses) |->
        IF \E t \in DOMAIN cache : cache[t].id = <<j>> THEN statuses[j] ELSE "GONE"]

\* a job leaves PENDING once, and never leaves a terminal status
NextStatuses(s) == IF s = "PENDING" THEN Statuses ELSE {s}

StatusResponses(export_id) ==
    {TransportFailure, GraphQLErrors(<<OtherMessage>>)}
    \cup {Data(s) : s \in NextStatuses(jobStatus[JobOf(export_id)])}

\* registryV2ExportDownloadSignedUrl: an error, a URL, or no signedUrl field
UrlResponses(export_id) ==
    {TransportFailure, GraphQLErrors(<<OtherMessage>>), Data(<< >>),
     Data(<<"signed", export_id>>)}

\* a sheet with the column " Date": the first day of the range, a text and
\* the evening of the last day
Sheet1 ==
    Table(<< <<" ", "D", "a", "t", "e">> >>,
          << <<DateTimeCell(DEFAULT_START_DATE, 0)>>,
             <<TextCell("n/a")>>,
             <<DateTimeCell(CHOOSE d \in Days : TRUE, 23)>> >>)
NoSheet == [columns |-> << >>, rows |-> << >>]

\* bytes that are no workbook
Junk == [xlsx |-> FALSE, sheet |-> NoSheet, raw |-> <<"<html>">>]

\* the answer to the GET of a signed URL: a workbook, or other bytes
FileResponses(url) ==
    {TransportFailure, HttpError,
     Data([xlsx |-> TRUE, sheet |-> Sheet1]), Data(Junk)}

ExportDates == {DEFAULT_START_DATE} \cup Days

-----------------------------------------------------------------------------
(* src/app.py *)

EmptyDict == [k \in {} |-> None]

Put(dict, key, value) == [k \in DOMAIN dict \cup {key} |-> IF k = key THEN value ELSE dict[k]]

BSD_TYPES == <<"BSDD", "BSDA", "BSFF", "BSVHU", "BSDASRI", "BSPAOH">>

BSD_TYPE_COLUMN_CANDIDATES ==
    << <<"b", "s", "d", "t", "y", "p", "e">>,
       <<"b", "s", "d", "_", "t", "y", "p", "e">>,
       <<"t", "y", "p", "e", " ", "d", "e", " ", "b", "o", "r", "d", "e", "r", "e", "a", "u">>,
       <<"t", "y", "p", "e", " ", "d", "e", " ", "b", "s", "d">>,
       <<"t", "y", "p", "e", " ", "b", "o", "r", "d", "e", "r", "e", "a", "u">>,
       <<"t", "y", "p", "e", " ", "d", "e", " ", "d", "e_acute", "c", "h", "e", "t">>,
       <<"t", "y", "p", "e">> >>

\* the candidates list of filter_by_date
DATE_COLUMN_CANDIDATES ==
    << <<"d", "a", "t", "e">>,
       <<"d", "a", "t", "e", " ", "d", "e", " ", "c", "r", "e", "a", "t", "i", "o", "n">>,
       <<"d", "a", "t", "e", " ", "d", "e", " ", "r", "e", "c", "e", "p", "t", "i", "o", "n">>,
       <<"d", "a", "t", "e", " ", "d", "e", " ", "p", "r", "i", "s", "e", " ", "e", "n", " ", "c", "h", "a", "r", "g", "e">>,
       <<"d", "a", "t", "e", " ", "d", "'", "e", "n", "v", "o", "i">>,
       <<"d", "a", "t", "e", " ", "d", "'", "e", "m", "i", "s", "s", "i", "o", "n">>,
       <<"c", "r", "e", "a", "t", "e", "d", "a", "t">>,
       <<"d", "a", "t", "e", " ", "c", "r", "e", "a", "t", "i", "o", "n">> >>

Whitespace == {" ", "\t", "\n"}

\* str.strip
RECURSIVE lstrip(_)
lstrip(s) == IF Len(s) > 0 /\ Head(s) \in Whitespace THEN lstrip(Tail(s)) ELSE s

RECURSIVE rstrip(_)
rstrip(s) ==
    IF Len(s) > 0 /\ s[Len(s)] \in Whitespace THEN rstrip(SubSeq(s, 1, Len(s) - 1)) ELSE s

strip(s) == rstrip(lstrip(s))

normalize_header(header) == lower(strip(header))

\* {normalize_header(col): col for col in columns}: of the columns with the
\* same normalized header the dict keeps the last
Normalized(columns) ==
    [key \in {normalize_header(columns[i]) : i \in 1..Len(columns)} |->
        LET last == CHOOSE i \in 1..Len(columns) :
                        /\ normalize_header(columns[i]) = key
                        /\ \A j \in (i + 1)..Len(columns) : normalize_header(columns[j]) # key
        IN  columns[last]]

\* an Optional[str] that is a string
Some(string) == [some |-> string]

\* "not column": None or the empty string
Not(column) == column = None \/ column = Some(<< >>)

\* the loop over the candidates: the column of the first candidate that is a
\* key of the dict, None when there is none
RECURSIVE FirstCandidate(_, _)
FirstCandidate(candidates, normalized) ==
    IF Len(candidates) = 0 THEN None
    ELSE IF Head(candidates) \in DOMAIN normalized THEN Some(normalized[Head(candidates)])
    ELSE FirstCandidate(Tail(candidates), normalized)

find_bsd_type_column(columns) == FirstCandidate(BSD_TYPE_COLUMN_CANDIDATES, Normalized(columns))

\* df[column]: the position of the column of that name
ColumnIndex(df, column) == CHOOSE i \in 1..Len(df.columns) : df.columns[i] = column

\* astype(str) on a cell
astype_str(cell) ==
    CASE cell.kind = "text" -> cell.text
      [] cell.kind = "blank" -> "nan"
      [] cell.kind = "datetime" -> ToString(<<cell.date, cell.hour>>)

\* filter_by_bsd_type(df, selected_types); selected_types is a sequence
filter_by_bsd_type(df, selected_types) ==
    LET column == find_bsd_type_column(df.columns)
    IN  IF Not(column) THEN df
        ELSE LET c == ColumnIndex(df, column.some)
                 isin(row) == \E k \in 1..Len(selected_types) :
                                  astype_str(row[c]) = selected_types[k]
             IN  Table(df.columns, SelectSeq(df.rows, isin))

\* pd.NaT
NaT == << >>

\* pd.to_datetime(value, errors="coerce") followed by .dt.date: the date of
\* a date and time, NaT for what is not one
to_date(cell) == IF cell.kind = "datetime" THEN cell.date ELSE NaT

\* df.empty
IsEmpty(df) == Len(df.rows) = 0 \/ Len(df.columns) = 0

\* filter_by_date with < in place of <= on the side of end_date
filter_by_date_before_end(df, start_date, end_date) ==
    IF df = None THEN df
    ELSE IF IsEmpty(df) THEN df
    ELSE LET date_col == FirstCandidate(DATE_COLUMN_CANDIDATES, Normalized(df.columns))
         IN  IF Not(date_col) THEN df
             ELSE LET c == ColumnIndex(df, date_col.some)
                      mask(row) ==
                          /\ to_date(row[c]) # NaT
                          /\ DateLE(start_date, to_date(row[c]))
                          /\ DateLE(to_date(row[c]), end_date)
                          /\ to_date(row[c]) # end_date
                  IN  Table(df.columns, SelectSeq(df.rows, mask))

\* filter_by_date(df, start_date, end_date) of main
filter_by_date(df, start_date, end_date) ==
    IF df = None THEN df
    ELSE IF IsEmpty(df) THEN df
    ELSE LET date_col == FirstCandidate(DATE_COLUMN_CANDIDATES, Normalized(df.columns))
         IN  IF Not(date_col) THEN df
             ELSE LET c == ColumnIndex(df, date_col.some)
                      mask(row) ==
                          /\ to_date(row[c]) # NaT
                          /\ DateLE(start_date, to_date(row[c]))
                          /\ DateLE(to_date(row[c]), end_date)
                  IN  Table(df.columns, SelectSeq(df.rows, mask))

\* filtered.to_excel(writer, index=False, sheet_name="Registre") into a buffer
to_excel(df) == [xlsx |-> TRUE, sheet |-> df]

\* io.BytesIO().getvalue() of a buffer nothing was written to
EmptyBytes == [xlsx |-> FALSE, sheet |-> NoSheet, raw |-> << >>]

\* the data of a download button: the buffer, written only when the
\* filtered table is not None
DownloadData(filtered) == IF filtered = None THEN EmptyBytes ELSE to_excel(filtered)

\* no download button yet
NoOffer == None

\* no call
NoCall == [fn |-> "none"]

\* pd.read_excel(io.BytesIO(file_bytes)), None when it raises
read_excel(bytes) == IF bytes.xlsx THEN bytes.sheet ELSE None

ErrorResult == [error |-> TRUE]

Payload(bytes, rows, registry_type_, df) ==
    [error |-> FALSE, bytes |-> bytes, rows |-> rows, registry_type |-> registry_type_,
     df |-> df]

start_iso == to_iso_datetime(DEFAULT_START_DATE, FALSE)
end_iso == to_iso_datetime(today, TRUE)

\* cache_key = f"{siret}|{start_iso}|{end_iso}|{registry_type}"
cache_key == <<siret, start_iso, end_iso, registry_type>>

LastExport(id, siret_, start, end) ==
    [id |-> id, siret |-> siret_, start |-> start, end |-> end]

\* st.session_state.last_export_by_type.get(registry_type, {})
last_export ==
    IF registry_type \in DOMAIN last_export_by_type
        THEN last_export_by_type[registry_type]
        ELSE LastExport(<< >>, << >>, << >>, << >>)

\* RecoveryAllowed comparing the entry's end date with the start of the request
RecoveryAllowedEndIsStart(entry, siret_, start, end) ==
    /\ entry.siret = siret_
    /\ entry.start = start
    /\ entry.end = start
    /\ entry.id # << >>

\* RecoveryAllowed without the comparison of the establishment
RecoveryAllowedAnySiret(entry, siret_, start, end) ==
    /\ entry.start = start
    /\ entry.end = end
    /\ entry.id # << >>

\* the condition of the cooldown recovery
RecoveryAllowed(entry, siret_, start, end) ==
    /\ entry.siret = siret_
    /\ entry.start = start
    /\ entry.end = end
    /\ entry.id # << >>

\* the key under which fetch_registry stores the export it obtained
ExportCacheSlot(registry_type_, siret_, start, end) == registry_type_

\* len(siret) != 14 or not siret.isdigit()
SiretRejected(siret_) == Len(siret_) # 14 \/ ~(\A i \in 1..Len(siret_) : siret_[i] \in Digits)

NoError == Return(None)
NoExport == RegistryExport(<< >>, "")
NoBytes == [xlsx |-> FALSE, sheet |-> NoSheet]

ErrorMessage(message) == <<"Erreur", "Trackdechets:">> \o message
CooldownWarning == <<"Export", "deja", "genere", "il", "y", "a", "moins", "de", "5", "minutes.",
                     "Attendez", "puis", "reessayez.">>
RecoveryInfo == <<"Export", "recent", "detecte.", "Recuperation", "du", "fichier...">>
NoIdMessage == <<"Impossible", "de", "lancer", "l'export.">>
TimeoutMessage == <<"L'export", "met", "trop", "de", "temps.">>
JobFailedMessage == <<"L'export", "a", "echoue", "cote", "Trackdechets.">>

\* rows = len(df) if df is not None else 0, and the payload of fetch_registry
FetchPayload(bytes) ==
    LET df == read_excel(bytes)
    IN  Payload(bytes, IF df = None THEN 0 ELSE Len(df.rows), registry_type, df)

\* where the poll loop goes on a status: once more round the loop, to the
\* error of a failed job, or on to the download
AfterStatus(s) ==
    IF ~IsTerminal(s) THEN "poll"
    ELSE IF s \in {"FAILED", "CANCELED"} THEN "failed"
    ELSE "url"

IsData(response) ==
    ~response.transport /\ response.http_ok /\ response.is_json /\ response.errors = << >>

-----------------------------------------------------------------------------
(* The ways a step of fetch_registry ends.  Each of them sets kVars. *)

kVars == <<pc, registry_cache, last_export_by_type, export, reuse_download, status,
           file_bytes, result, shown, fetchOutcome, generated, cachedId,
           observedAt, runOutcome>>

Goto(label) ==
    /\ pc' = label
    /\ UNCHANGED <<registry_cache, last_export_by_type, export, reuse_download, status,
                   file_bytes, result, shown, fetchOutcome, generated, cachedId,
                   observedAt, runOutcome>>

\* generate_registry_export returns its export or raises its error
Generated(outcome) ==
    /\ pc' = "generated"
    /\ generated' = outcome
    /\ UNCHANGED <<registry_cache, last_export_by_type, export, reuse_download, status,
                   file_bytes, result, shown, fetchOutcome, cachedId, observedAt,
                   runOutcome>>

\* ReturnError that stores the error result under cache_key before it returns
ReturnErrorCached(outcome, message) ==
    /\ pc' = "returned"
    /\ result' = ErrorResult
    /\ shown' = message
    /\ fetchOutcome' = outcome
    /\ registry_cache' = Put(registry_cache, cache_key, ErrorResult)
    /\ UNCHANGED <<last_export_by_type, export, reuse_download, status,
                   file_bytes, generated, cachedId, observedAt, runOutcome>>

\* st.error / st.warning, then return {"error": True}
ReturnError(outcome, message) ==
    /\ pc' = "returned"
    /\ result' = ErrorResult
    /\ shown' = message
    /\ fetchOutcome' = outcome
    /\ UNCHANGED <<registry_cache, last_export_by_type, export, reuse_download, status,
                   file_bytes, generated, cachedId, observedAt, runOutcome>>

\* an exception that no except clause of fetch_registry or main catches: the
\* script run ends there
Crash ==
    /\ pc' = "idle"
    /\ fetchOutcome' = "exception"
    /\ runOutcome' = "exception"
    /\ export' = NoExport
    /\ reuse_download' = FALSE
    /\ status' = ""
    /\ file_bytes' = NoBytes
    /\ generated' = NoError
    /\ UNCHANGED <<registry_cache, last_export_by_type, result, shown, cachedId,
                   observedAt>>

\* NoExportId testing the status of the export in place of its id
NoExportIdByStatus(exp) == exp.status = ""

\* "if not export.export_id"
NoExportId(exp) == exp.export_id = << >>

\* fetch_registry from "if not export.export_id" on, with the export that
\* generation returned (reuse = FALSE) or the one the recovery made up
OnExport(exp, reuse, bytes) ==
    LET noId == NoExportId(exp)
        next == IF noId THEN "no_id"
                ELSE IF reuse THEN "payload"
                ELSE AfterStatus(exp.status)
        payload == FetchPayload(bytes)
    IN  /\ export' = exp
        /\ reuse_download' = reuse
        /\ last_export_by_type' =
              IF noId THEN last_export_by_type
              ELSE Put(last_export_by_type,
                       ExportCacheSlot(registry_type, siret, start_iso, end_iso),
                       LastExport(exp.export_id, siret, start_iso, end_iso))
        /\ status' = IF noId \/ reuse THEN status ELSE exp.status
        /\ observedAt' = IF next \in {"failed", "url"} THEN 0 ELSE observedAt
        /\ file_bytes' = IF reuse THEN bytes ELSE file_bytes
        /\ registry_cache' =
              IF next = "payload" THEN Put(registry_cache, cache_key, payload)
              ELSE registry_cache
        /\ result' = CASE next \in {"no_id", "failed"} -> ErrorResult
                       [] next = "payload" -> payload
                       [] OTHER -> result
        /\ fetchOutcome' = CASE next = "no_id" -> "no_id"
                             [] next = "failed" -> "job_failed"
                             [] next = "payload" -> "payload"
                             [] OTHER -> fetchOutcome
        /\ shown' = CASE next = "no_id" -> NoIdMessage
                      [] next = "failed" -> JobFailedMessage
                      [] OTHER -> shown
        /\ pc' = IF next \in {"poll", "url"} THEN next ELSE "returned"
        /\ UNCHANGED <<generated, cachedId, runOutcome>>

\* the except clause of fetch_registry around generate_registry_export
OnGenerateError(exc) ==
    LET cooldown == IsCooldownConflict(exc.message)
        hit == cooldown /\ RecoveryAllowed(last_export, siret, start_iso, end_iso)
    IN  /\ cachedId' = IF hit THEN last_export.id ELSE cachedId
        /\ pc' = IF hit THEN "recover_url" ELSE "returned"
        /\ result' = IF hit THEN result ELSE ErrorResult
        /\ shown' = IF hit THEN RecoveryInfo
                    ELSE IF cooldown THEN CooldownWarning
                    ELSE ErrorMessage(exc.message)
        /\ fetchOutcome' = IF hit THEN fetchOutcome
                           ELSE IF cooldown THEN "cooldown_miss"
                           ELSE "generate_error"
        /\ UNCHANGED <<registry_cache, last_export_by_type, export, reuse_download,
                       status, file_bytes, generated, observedAt, runOutcome>>

\* the poll loop after get_registry_export_status returned s
OnStatus(s, at) ==
    LET next == AfterStatus(s)
    IN  /\ status' = s
        /\ observedAt' = IF next = "poll" THEN observedAt ELSE at
        /\ pc' = IF next = "failed" THEN "returned" ELSE next
        /\ result' = IF next = "failed" THEN ErrorResult ELSE result
        /\ shown' = IF next = "failed" THEN JobFailedMessage ELSE shown
        /\ fetchOutcome' = IF next = "failed" THEN "job_failed" ELSE fetchOutcome
        /\ UNCHANGED <<registry_cache, last_export_by_type, export, reuse_download,
                       file_bytes, generated, cachedId, runOutcome>>

\* the end of fetch_registry on the path that polled
OnDownloaded(bytes) ==
    /\ file_bytes' = bytes
    /\ registry_cache' = Put(registry_cache, cache_key, FetchPayload(bytes))
    /\ result' = FetchPayload(bytes)
    /\ fetchOutcome' = "payload"
    /\ pc' = "returned"
    /\ UNCHANGED <<last_export_by_type, export, reuse_download, status, shown,
                   generated, cachedId, observedAt, runOutcome>>

-----------------------------------------------------------------------------
(* The state machine *)

\* a new session: st.session_state is empty and no run has taken place
SessionInit ==
    /\ companies = << >>
    /\ companies_token = ""
    /\ registry_cache = EmptyDict
    /\ last_export_by_type = EmptyDict
    /\ jobStatus = << >>
    /\ pc = "idle"
    /\ token = ""
    /\ today \in {d \in Days : \A e \in Days : DateLE(d, e)}
    /\ siret = << >>
    /\ incoming = None
    /\ outgoing = None
    /\ export_start = DEFAULT_START_DATE
    /\ export_end = today
    /\ registry_type = "INCOMING"
    /\ variant = 1
    /\ last_error = NoError
    /\ export = NoExport
    /\ reuse_download = FALSE
    /\ status = ""
    /\ elapsed = 0
    /\ download_url = << >>
    /\ file_bytes = NoBytes
    /\ result = None
    /\ sent = << >>
    /\ statusCalls = 0
    /\ urlCalls = << >>
    /\ downloads = 0
    /\ shown = << >>
    /\ fetchOutcome = "none"
    /\ generated = NoError
    /\ cachedId = << >>
    /\ observedAt = -1
    /\ downloadedStatus = ""
    /\ networkCalled = FALSE
    /\ runOutcome = "none"
    /\ offered = NoOffer

Init ==
    /\ SessionInit
    /\ args = NoCall
    /\ returned = None

\* the locals and the observations of a fetch_registry call, before it starts
ResetFetch ==
    /\ variant' = 1
    /\ last_error' = NoError
    /\ export' = NoExport
    /\ reuse_download' = FALSE
    /\ status' = ""
    /\ elapsed' = 0
    /\ download_url' = << >>
    /\ file_bytes' = NoBytes
    /\ result' = None
    /\ sent' = << >>
    /\ statusCalls' = 0
    /\ urlCalls' = << >>
    /\ downloads' = 0
    /\ shown' = << >>
    /\ fetchOutcome' = "none"
    /\ generated' = NoError
    /\ cachedId' = << >>
    /\ observedAt' = -1
    /\ downloadedStatus' = ""

\* main, from the token input to the listing: a rerun of the script with the
\* token typed in the field, on a day that is not before the last run's
StartRun(tok, day) ==
    /\ pc = "idle"
    /\ DateLE(today, day)
    /\ token' = tok
    /\ today' = day
    /\ companies_token' = tok
    /\ companies' = IF companies_token # tok THEN << >> ELSE companies
    /\ registry_cache' = IF companies_token # tok THEN EmptyDict ELSE registry_cache
    /\ pc' = IF companies' = << >> THEN "list" ELSE "select"
    /\ siret' = << >>
    /\ incoming' = None
    /\ outgoing' = None
    /\ export_start' = DEFAULT_START_DATE
    /\ export_end' = day
    /\ registry_type' = "INCOMING"
    /\ networkCalled' = FALSE
    /\ runOutcome' = "running"
    /\ ResetFetch
    /\ jobStatus' = Forget(jobStatus, last_export_by_type)
    /\ UNCHANGED last_export_by_type
    /\ offered' = NoOffer
    /\ UNCHANGED callVars

\* main: client.list_my_companies() when the session holds no company
ListCompanies ==
    /\ pc = "list"
    /\ \E response \in ListResponses :
          LET r == _post(response)
          IN  /\ companies' = IF r.exc = "none" THEN list_my_companies(r.value)
                              ELSE companies
              /\ pc' = IF r.exc = "none" THEN "select" ELSE "idle"
              /\ runOutcome' = CASE r.exc = "none" -> runOutcome
                                 [] r.exc = "TrackdechetsError" -> "list_error"
                                 [] OTHER -> "exception"
    /\ networkCalled' = TRUE
    /\ UNCHANGED <<companies_token, registry_cache, last_export_by_type, jobStatus,
                   runVars, fetchVars, obsVars>>
    /\ UNCHANGED <<offered, callVars>>

\* main: the selectbox (choice 0 is the placeholder) and the SIRET check
SelectCompany ==
    /\ pc = "select"
    /\ \E choice \in 0..Len(companies) :
          LET chosen == IF choice = 0 THEN << >> ELSE companies[choice].siret
          IN  /\ siret' = chosen
              /\ pc' = IF chosen = << >> \/ SiretRejected(chosen) THEN "idle" ELSE "fetch"
              /\ runOutcome' = CASE chosen = << >> -> "no_company"
                                 [] SiretRejected(chosen) -> "siret_rejected"
                                 [] OTHER -> runOutcome
    /\ UNCHANGED <<sessionVars, jobStatus, token, today, incoming, outgoing,
                   export_start, export_end, fetchVars, obsVars, networkCalled>>
    /\ UNCHANGED <<offered, callVars>>

\* FetchBegin without the lookup: every call starts with the generation
FetchBeginNoLookup ==
    /\ pc = "fetch"
    /\ pc' = "generate"
    /\ UNCHANGED <<result, fetchOutcome>>
    /\ UNCHANGED <<sessionVars, jobStatus, runVars, registry_type, variant, last_error,
                   export, reuse_download, status, elapsed, download_url, file_bytes,
                   sent, statusCalls, urlCalls, downloads, shown, generated,
                   cachedId, observedAt, downloadedStatus, networkCalled, runOutcome>>
    /\ UNCHANGED <<offered, callVars>>

\* fetch_registry: the lookup of cache_key in st.session_state.registry_cache
FetchBegin ==
    /\ pc = "fetch"
    /\ IF cache_key \in DOMAIN registry_cache
          THEN /\ result' = registry_cache[cache_key]
               /\ fetchOutcome' = "cached"
               /\ pc' = "returned"
          ELSE /\ pc' = "generate"
               /\ UNCHANGED <<result, fetchOutcome>>
    /\ UNCHANGED <<sessionVars, jobStatus, runVars, registry_type, variant, last_error,
                   export, reuse_download, status, elapsed, download_url, file_bytes,
                   sent, statusCalls, urlCalls, downloads, shown, generated,
                   cachedId, observedAt, downloadedStatus, networkCalled, runOutcome>>
    /\ UNCHANGED <<offered, callVars>>

\* one request of generate_registry_export's loop over variants
GenerateAttempt ==
    /\ pc = "generate"
    /\ \E response \in GenerateResponses :
          LET r == _post(response)
              raised == r.exc = "TrackdechetsError"
              error == ExceptHandler(last_error, r)
              next == AfterAttempt(variant, raised)
          IN  /\ jobStatus' = IF IsData(response) /\ response.data.export_id # << >>
                                  THEN Append(jobStatus, response.data.status)
                                  ELSE jobStatus
              /\ sent' = Append(sent, [dateRange |-> variants[variant], raised |-> r.exc,
                                       message |-> r.message])
              /\ last_error' = IF r.exc = "RequestException" THEN NoError ELSE error
              /\ variant' = IF next = "continue" /\ r.exc # "RequestException"
                                THEN variant + 1 ELSE 1
              /\ CASE r.exc = "RequestException" -> Crash
                   [] next = "return" -> Generated(r)
                   [] next = "continue" /\ variant < Len(variants) -> Goto("generate")
                   \* after the loop: raise last_error, or the error of its own
                   [] OTHER -> Generated(IF error.exc = "none"
                                             THEN Raise("TrackdechetsError", NoIdMessage)
                                             ELSE error)
    /\ networkCalled' = TRUE
    /\ UNCHANGED <<companies, companies_token, runVars, registry_type, elapsed,
                   download_url, statusCalls, urlCalls, downloads, downloadedStatus>>
    /\ UNCHANGED <<offered, callVars>>

\* fetch_registry, once generate_registry_export has returned or raised, up
\* to its next request; the locals of generate_registry_export are gone
HandleGenerated ==
    /\ pc = "generated"
    /\ IF generated.exc = "none"
          THEN OnExport(generated.value, FALSE, NoBytes)
          ELSE OnGenerateError(generated)
    /\ variant' = 1
    /\ last_error' = NoError
    /\ sent' = << >>
    /\ UNCHANGED <<companies, companies_token, jobStatus, runVars, registry_type, elapsed,
                   download_url, statusCalls, urlCalls, downloads, downloadedStatus,
                   networkCalled>>
    /\ UNCHANGED <<offered, callVars>>

\* one iteration of the poll loop: the budget test, time.sleep(5), and
\* get_registry_export_status, which takes one of delays seconds to answer
PollLoop(delays) ==
    /\ pc = "poll"
    /\ IF TimedOut(elapsed)
          THEN /\ ReturnError("timeout", TimeoutMessage)
               /\ UNCHANGED <<jobStatus, elapsed, statusCalls, networkCalled>>
          ELSE \E response \in StatusResponses(export.export_id), delay \in delays :
                  LET r == _post(response)
                      at == elapsed + poll_sleep + delay
                  IN  /\ elapsed' = at
                      /\ statusCalls' = statusCalls + 1
                      /\ networkCalled' = TRUE
                      /\ jobStatus' = IF IsData(response)
                                          THEN [jobStatus EXCEPT
                                                  ![JobOf(export.export_id)] = response.data]
                                          ELSE jobStatus
                      /\ CASE r.exc = "RequestException" -> Crash
                           [] r.exc = "TrackdechetsError" ->
                                  ReturnError("status_error", ErrorMessage(r.message))
                           [] OTHER -> OnStatus(r.value, at)
    /\ UNCHANGED <<companies, companies_token, runVars, registry_type, variant,
                   last_error, download_url, sent, urlCalls, downloads, downloadedStatus>>
    /\ UNCHANGED <<offered, callVars>>

\* a server that answers a status request just before the client gives up
SlowDelays == {post_timeout - poll_sleep}

\* a server that answers at once, but for MaxDelay seconds over one fetch
TimedDelays == {d \in 0..MaxDelay : (elapsed + d) - poll_sleep * statusCalls <= MaxDelay}

SlowPoll == PollLoop(SlowDelays)

TimedPoll == PollLoop(TimedDelays)

\* client.get_registry_export_download_url(id); the job may have moved on
UrlStep(id, failure, label) ==
    /\ \E response \in UrlResponses(id), s \in NextStatuses(jobStatus[JobOf(id)]) :
          LET r == _post(response)
          IN  /\ jobStatus' = [jobStatus EXCEPT ![JobOf(id)] = s]
              /\ download_url' = IF r.exc = "none" THEN r.value ELSE download_url
              /\ CASE r.exc = "RequestException" -> Crash
                   [] r.exc = "TrackdechetsError" ->
                          ReturnError(failure, ErrorMessage(r.message))
                   [] OTHER -> Goto(label)
    /\ urlCalls' = Append(urlCalls, id)
    /\ networkCalled' = TRUE
    /\ UNCHANGED <<companies, companies_token, runVars, registry_type, variant,
                   last_error, elapsed, sent, statusCalls, downloads, downloadedStatus>>
    /\ UNCHANGED <<offered, callVars>>

\* the download URL of the export that was polled
GetDownloadUrl ==
    /\ pc = "url"
    /\ UrlStep(export.export_id, "download_error", "download")

\* the download URL of the export of the cache, in the cooldown recovery
RecoverDownloadUrl ==
    /\ pc = "recover_url"
    /\ UrlStep(last_export.id, "recover_error", "recover_download")

\* client.download_file(download_url)
DownloadStep(recovering) ==
    /\ \E response \in FileResponses(download_url) :
          LET r == download_file(download_url, response)
          IN  /\ downloadedStatus' = IF r.exc = "none"
                                         THEN jobStatus[JobOf(download_url[2])]
                                         ELSE downloadedStatus
              /\ CASE r.exc = "RequestException" -> Crash
                   [] r.exc = "TrackdechetsError" ->
                          ReturnError(IF recovering THEN "recover_error" ELSE "download_error",
                                      ErrorMessage(r.message))
                   [] recovering ->
                          OnExport(RegistryExport(last_export.id, "SUCCESSFUL"), TRUE, r.value)
                   [] OTHER -> OnDownloaded(r.value)
    /\ downloads' = downloads + 1
    /\ networkCalled' = (networkCalled \/ download_url # << >>)
    /\ UNCHANGED <<companies, companies_token, jobStatus, runVars, registry_type, variant,
                   last_error, elapsed, download_url, sent, statusCalls, urlCalls>>
    /\ UNCHANGED <<offered, callVars>>

DownloadFile ==
    /\ pc = "download"
    /\ DownloadStep(FALSE)

RecoverDownloadFile ==
    /\ pc = "recover_download"
    /\ DownloadStep(TRUE)

\* main, after a fetch_registry call returned: the second call, or the
\* test on the two results
AfterFetch ==
    /\ pc = "returned"
    /\ IF registry_type = "INCOMING"
          THEN /\ incoming' = result
               /\ registry_type' = "OUTGOING"
               /\ pc' = "fetch"
               /\ UNCHANGED <<outgoing, runOutcome>>
          ELSE /\ outgoing' = result
               /\ pc' = IF incoming.error \/ result.error THEN "idle" ELSE "export"
               /\ runOutcome' = IF incoming.error \/ result.error THEN "unavailable"
                                ELSE runOutcome
               /\ UNCHANGED <<incoming, registry_type>>
    /\ ResetFetch
    /\ jobStatus' = Forget(jobStatus, last_export_by_type)
    /\ UNCHANGED <<sessionVars, token, today, siret, export_start, export_end,
                   networkCalled>>
    /\ UNCHANGED <<offered, callVars>>

\* main: the date input, the test of the period, the date filter and the
\* two download buttons
ExportPeriod ==
    /\ pc = "export"
    /\ \E from \in ExportDates, to \in ExportDates :
          /\ export_start' = from
          /\ export_end' = to
          /\ runOutcome' = IF ~DateLE(from, to) THEN "period_rejected" ELSE "exported"
          /\ offered' = IF ~DateLE(from, to) THEN NoOffer
                         ELSE [INCOMING |-> DownloadData(filter_by_date(incoming.df, from, to)),
                               OUTGOING |-> DownloadData(filter_by_date(outgoing.df, from, to))]
    /\ pc' = "idle"
    /\ UNCHANGED <<sessionVars, jobStatus, token, today, siret, incoming, outgoing,
                   fetchVars, obsVars, networkCalled>>
    /\ UNCHANGED callVars

\* A session: any number of script runs, against a slow server
Next ==
    \/ \E tok \in Tokens, day \in Days : StartRun(tok, day)
    \/ ListCompanies
    \/ SelectCompany
    \/ FetchBegin
    \/ GenerateAttempt
    \/ HandleGenerated
    \/ SlowPoll
    \/ GetDownloadUrl
    \/ DownloadFile
    \/ RecoverDownloadUrl
    \/ RecoverDownloadFile
    \/ AfterFetch
    \/ ExportPeriod

Spec == Init /\ [][Next]_vars

\* The first script run of a session, its polls timed to the second
FirstRun == \E tok \in Tokens, day \in Days : runOutcome = "none" /\ StartRun(tok, day)

PollNext ==
    \/ FirstRun
    \/ ListCompanies
    \/ SelectCompany
    \/ FetchBegin
    \/ GenerateAttempt
    \/ HandleGenerated
    \/ TimedPoll
    \/ GetDownloadUrl
    \/ DownloadFile
    \/ AfterFetch
    \/ ExportPeriod

PollSpec == Init /\ [][PollNext]_vars

-----------------------------------------------------------------------------
(* Calls of single functions, on arguments drawn from bounded sets *)

\* rows of a table given to a function
MaxRows == 2

\* entries of a "companies" array given to list_my_companies
MaxCompanies == 3

\* the sequences over S of length at most n
SeqUpTo(S, n) == UNION {[1..k -> S] : k \in 0..n}

\* the sequences of one or two distinct elements of S
Headers(S) == {<<h>> : h \in S} \cup {p \in S \X S : p[1] # p[2]}

CallDates == {<<2026, 11, 5>>, <<2026, 11, 6>>, <<2026, 11, 7>>}

DateHeaders ==
    { <<" ", "D", "a", "t", "e">>, <<"D", "A", "T", "E", " ">>, <<"c", "r", "e", "a", "t", "e", "d", "A", "t">>, <<"R", "e", "f">> }

DateCells ==
    {DateTimeCell(<<2026, 11, 5>>, 0), DateTimeCell(<<2026, 11, 6>>, 23),
     DateTimeCell(<<2026, 11, 7>>, 0), TextCell("n/a"), BlankCell}

\* the cells of the second column of a table of two columns
OtherCells == {DateTimeCell(<<2026, 11, 6>>, 0), TextCell("x")}

TablesOver(headers, cells, others) ==
    {Table(columns, rows) :
        columns \in {c \in Headers(headers) : Len(c) = 1}, rows \in SeqUpTo({<<c>> : c \in cells}, MaxRows)}
    \cup
    {Table(columns, rows) :
        columns \in {c \in Headers(headers) : Len(c) = 2},
        rows \in SeqUpTo({<<c, d>> : c \in cells, d \in others}, MaxRows)}

TypeHeaders ==
    { <<"T", "y", "p", "e">>, <<" ", "B", "s", "d", "T", "y", "p", "e", " ">>, <<"T", "y", "p", "e", " ", "d", "e", " ", "d", "e_acute", "c", "h", "e", "t">>, <<"R", "e", "f">> }

TypeCells == {TextCell("BSDD"), TextCell("BSFF"), BlankCell}

SelectedTypes == {<< >>, <<"BSDD">>, <<"BSFF", "BSDD">>}

RawCompanies ==
    {[name |-> <<"b">>, siret |-> SiretB], [name |-> <<"A">>, siret |-> SiretA],
     [name |-> <<"a">>, siret |-> << >>], [name |-> << >>, siret |-> SiretB],
     [name |-> <<"B">>, siret |-> SiretA], [name |-> <<"a">>, siret |-> SiretB]}

Calls ==
    {[fn |-> "filter_by_date", df |-> df, start_date |-> s, end_date |-> e] :
        df \in TablesOver(DateHeaders, DateCells, OtherCells) \cup {None},
        s \in CallDates, e \in CallDates}
    \cup
    {[fn |-> "filter_by_bsd_type", df |-> df, selected_types |-> t] :
        df \in TablesOver(TypeHeaders, TypeCells, TypeCells), t \in SelectedTypes}
    \cup
    {[fn |-> "list_my_companies", companies |-> raw] :
        raw \in SeqUpTo(RawCompanies, MaxCompanies)}

\* what a call gave: the value returned and the messages displayed
Outcome(value, messages) == [value |-> value, shown |-> messages]

CallInit ==
    /\ SessionInit
    /\ args \in Calls
    /\ returned = None

CallFilterByDate ==
    /\ args.fn = "filter_by_date"
    /\ returned = None
    /\ returned' = Outcome(filter_by_date(args.df, args.start_date, args.end_date), << >>)
    /\ UNCHANGED <<sessionVars, jobStatus, pc, runVars, fetchVars, obsVars, networkCalled,
                   runOutcome, offered, args>>

CallFilterByBsdType ==
    /\ args.fn = "filter_by_bsd_type"
    /\ returned = None
    /\ returned' = Outcome(filter_by_bsd_type(args.df, args.selected_types), << >>)
    /\ UNCHANGED <<sessionVars, jobStatus, pc, runVars, fetchVars, obsVars, networkCalled,
                   runOutcome, offered, args>>

\* list_my_companies on a response whose data.me.companies is args.companies
CallListMyCompanies ==
    /\ args.fn = "list_my_companies"
    /\ returned = None
    /\ returned' = Outcome(list_my_companies(args.companies), << >>)
    /\ UNCHANGED <<sessionVars, jobStatus, pc, runVars, fetchVars, obsVars, networkCalled,
                   runOutcome, offered, args>>

CallNext ==
    \/ CallFilterByDate
    \/ CallFilterByBsdType
    \/ CallListMyCompanies

CallSpec == CallInit /\ [][CallNext]_vars

-----------------------------------------------------------------------------
(* Properties *)

\* a fetch_registry call has returned its result to main
Returned == pc = "returned"

\* the export cache, read as the spec describes it: the job recorded for the
\* key (establishment, direction, start, end), "" when there is none
CachedJob(siret_, registry_type_, start, end) ==
    IF /\ registry_type_ \in DOMAIN last_export_by_type
       /\ last_export_by_type[registry_type_].siret = siret_
       /\ last_export_by_type[registry_type_].start = start
       /\ last_export_by_type[registry_type_].end = end
        THEN last_export_by_type[registry_type_].id
        ELSE << >>

\* generate_registry_export raised a TrackdechetsError that tells of the cooldown
CooldownRaised ==
    /\ generated.exc = "TrackdechetsError"
    /\ \E i \in 1..(Len(generated.message) - 3) :
          SubSeq(generated.message, i, i + 3) = <<"moins", "de", "5", "minutes">>

\* C1: fetch_registry returns downloaded bytes only for a job whose status was
\* SUCCESSFUL when the file was downloaded, on the polled path and on the
\* path that recovers the job of the export cache
C1_DownloadOnlyWhenSuccessful ==
    (Returned /\ fetchOutcome = "payload") => downloadedStatus = "SUCCESSFUL"

\* C2: generate_registry_export sends the {gte, lte} request first, the
\* {_gte, _lte} request only after the first raised TrackdechetsError, and
\* nothing after a request that succeeded: at most two requests
C2_SecondVariantOnlyAfterFailure ==
    /\ Len(sent) <= 2
    /\ Len(sent) >= 1 => sent[1].dateRange = {"gte", "lte"}
    /\ Len(sent) = 2 =>
          /\ sent[2].dateRange = {"_gte", "_lte"}
          /\ sent[1].raised = "TrackdechetsError"
    /\ pc = "generated" =>
          /\ Len(sent) >= 1
          /\ (generated.exc = "none") = (sent[Len(sent)].raised = "none")
          /\ sent[1].raised = "none" => Len(sent) = 1

\* C2, witness: the second request was sent after the first failed, and succeeded
C2_Witness ==
    /\ pc = "generated"
    /\ Len(sent) = 2
    /\ generated.exc = "none"

\* the export cache holds a job for the key of the current fetch_registry call
CacheMatches == CachedJob(siret, registry_type, start_iso, end_iso) # << >>

\* C3, as the spec states it: a cooldown conflict on a key the export cache
\* holds a job for is always recovered into a non-error payload, without a
\* status call and with the cached id in the download URL lookup
C3_RecoveryAlwaysReturnsPayload ==
    (Returned /\ CooldownRaised /\ CacheMatches) =>
        /\ statusCalls = 0
        /\ urlCalls = <<CachedJob(siret, registry_type, start_iso, end_iso)>>
        /\ downloads = 1
        /\ fetchOutcome = "payload"
        /\ result # ErrorResult

\* C3, amended: on a cooldown conflict for a key the export cache holds a job
\* for, fetch_registry makes no status call and looks the download URL up
\* with exactly the cached id; it returns a non-error payload when the lookup
\* and the download succeed, and an error result when one of them raises
\* TrackdechetsError
C3_RecoveryReusesCachedJob ==
    /\ pc \in {"recover_url", "recover_download"} =>
          /\ CooldownRaised /\ CacheMatches
          /\ statusCalls = 0
          /\ cachedId = CachedJob(siret, registry_type, start_iso, end_iso)
    /\ pc = "recover_download" =>
          urlCalls = <<CachedJob(siret, registry_type, start_iso, end_iso)>>
    /\ (Returned /\ CooldownRaised /\ CacheMatches) =>
          /\ statusCalls = 0
          /\ urlCalls = <<CachedJob(siret, registry_type, start_iso, end_iso)>>
          /\ fetchOutcome \in {"payload", "recover_error"}
          /\ fetchOutcome = "payload" =>
                /\ downloads = 1
                /\ result = FetchPayload(file_bytes)
                /\ result # ErrorResult
          /\ fetchOutcome = "recover_error" =>
                /\ downloads <= 1
                /\ result = ErrorResult

\* C3, witness: a cooldown conflict was recovered into a payload
C3_Witness ==
    /\ Returned /\ CooldownRaised /\ CacheMatches
    /\ fetchOutcome = "payload"
    /\ downloads = 1

\* C4: a cooldown conflict on a key the export cache holds no job for is
\* reported, and fetch_registry returns an error result without a status
\* call, a download URL lookup or a download
C4_CooldownWithoutCacheIsReported ==
    (Returned /\ CooldownRaised /\ ~CacheMatches) =>
        /\ fetchOutcome = "cooldown_miss"
        /\ shown = CooldownWarning
        /\ result = ErrorResult
        /\ statusCalls = 0
        /\ urlCalls = << >>
        /\ downloads = 0

\* C4, witness: the conflict is reported while the export cache holds the job
\* of another establishment for the same direction
C4_Witness ==
    /\ Returned /\ CooldownRaised /\ ~CacheMatches
    /\ registry_type \in DOMAIN last_export_by_type
    /\ last_export_by_type[registry_type].id # << >>
    /\ last_export_by_type[registry_type].siret # siret

\* C5: once SUCCESSFUL, FAILED or CANCELED has been observed, as the status
\* generation returned or as the answer of a poll, no further status call is
\* made: SUCCESSFUL goes straight to the download, FAILED and CANCELED go
\* straight to an error result without a download
C5_TerminalStatusEndsPolling ==
    /\ pc = "poll" => status \notin {"SUCCESSFUL", "FAILED", "CANCELED"}
    /\ status \in {"SUCCESSFUL", "FAILED", "CANCELED"} =>
          /\ observedAt = elapsed
          /\ statusCalls * poll_sleep <= observedAt
    /\ status \in {"FAILED", "CANCELED"} =>
          /\ Returned
          /\ fetchOutcome = "job_failed"
          /\ result = ErrorResult
          /\ shown = JobFailedMessage
          /\ urlCalls = << >>
          /\ downloads = 0
    /\ status = "SUCCESSFUL" =>
          /\ pc \in {"url", "download", "returned"}
          /\ pc = "url" => urlCalls = << >> /\ downloads = 0
          /\ pc = "download" => urlCalls = <<export.export_id>> /\ downloads = 0
          /\ Returned => fetchOutcome \in {"payload", "download_error"}

\* C5, witness: a poll answered CANCELED and fetch_registry returned the error
C5_Witness ==
    /\ Returned
    /\ status = "CANCELED"
    /\ statusCalls >= 2
    /\ fetchOutcome = "job_failed"

\* C6, as the spec states it: a fetch_registry call that saw no terminal
\* status in the first 180 seconds of polling ends with the timeout error
\* (or with the error of a poll that failed) and without a download; polls
\* are 5 seconds apart
C6_TimeoutAfter180Seconds ==
    /\ statusCalls * poll_sleep <= elapsed
    /\ (Returned /\ elapsed > 180 /\ (observedAt = -1 \/ observedAt > 180)) =>
          /\ fetchOutcome \in {"timeout", "status_error"}
          /\ downloads = 0

\* C6, amended: the budget is tested at the top of each iteration of the
\* loop only.  A test that finds more than 180 seconds elapsed ends
\* fetch_registry with the timeout error, without a download; a poll is sent
\* only after a test that found at most 180 seconds elapsed, and its answer
\* is acted upon whenever it arrives.  Each poll follows a sleep of 5
\* seconds, so there are at most 180 / 5 + 1 polls.
C6_TimeoutAtLoopTest ==
    /\ [](/\ statusCalls * poll_sleep <= elapsed
          /\ statusCalls <= (180 \div 5) + 1
          /\ fetchOutcome = "timeout" =>
                /\ Returned
                /\ elapsed > 180
                /\ status \notin {"SUCCESSFUL", "FAILED", "CANCELED"}
                /\ observedAt = -1
                /\ urlCalls = << >>
                /\ downloads = 0
                /\ result = ErrorResult
                /\ shown = TimeoutMessage)
    /\ [][(pc = "poll" /\ elapsed > 180) =>
              /\ pc' = "returned"
              /\ fetchOutcome' = "timeout"
              /\ statusCalls' = statusCalls]_vars
    /\ [][statusCalls' = statusCalls + 1 =>
              /\ elapsed <= 180
              /\ elapsed' >= elapsed + poll_sleep]_vars

\* C6, witness: the server answered every poll with a non-terminal status and
\* fetch_registry gave up after the 37th
C6_Witness ==
    /\ Returned
    /\ fetchOutcome = "timeout"
    /\ statusCalls = 37

\* C7: a successful generation for the key (siret, direction, start, end)
\* leaves the returned job in the export cache under that key, and the job
\* of every other key (another establishment, or the other direction) as it
\* was
C7_OtherKeysUnchanged ==
    [][(pc = "generated" /\ generated.exc = "none" /\ generated.value.export_id # << >>) =>
          /\ CachedJob(siret, registry_type, start_iso, end_iso)' = generated.value.export_id
          /\ \A s \in {SiretA, SiretB}, t \in REGISTRY_TYPES :
                <<s, t>> # <<siret, registry_type>> =>
                    CachedJob(s, t, start_iso, end_iso)' = CachedJob(s, t, start_iso, end_iso)]_vars

\* generation raised, fetch_registry is over, and the error was not one that
\* tells of the cooldown
GenerationFailedOtherwise ==
    \/ Returned /\ generated.exc # "none" /\ ~CooldownRaised
    \/ pc = "idle" /\ sent # << >> /\ sent[Len(sent)].raised # "none"

\* C8: when generation fails with an error that does not tell of the
\* cooldown, fetch_registry displays that error's message as it is and
\* returns an error result; it made no recovery, no status call, no download
\* URL lookup and no download, and the dataset cache has no entry for the
\* request
C8_GenerationErrorSurfaced ==
    GenerationFailedOtherwise =>
        /\ Returned
        /\ fetchOutcome = "generate_error"
        /\ result = ErrorResult
        /\ shown = <<"Erreur", "Trackdechets:">> \o generated.message
        /\ cachedId = << >>
        /\ statusCalls = 0
        /\ urlCalls = << >>
        /\ downloads = 0
        /\ cache_key \notin DOMAIN registry_cache

\* C9: every failure of a client call reaches the script as TrackdechetsError,
\* which the script handles: no run is ended by an exception of another kind
C9_OnlyTrackdechetsErrorEscapes ==
    /\ runOutcome # "exception"
    /\ \A i \in 1..Len(sent) : sent[i].raised \in {"none", "TrackdechetsError"}

\* C10: a run whose export period has its start after its end made no
\* request to the API
C10_RangeRejectedBeforeNetwork ==
    runOutcome = "period_rejected" => ~networkCalled

\* an establishment identifier of exactly 14 decimal digits
FourteenDecimalDigits(s) ==
    /\ Len(s) = 14
    /\ \A i \in 1..14 : s[i] \in {"0", "1", "2", "3", "4", "5", "6", "7", "8", "9"}

\* C11: the script goes on to fetch_registry only with an identifier of
\* exactly 14 decimal digits; for any other identifier no generation, status,
\* download URL or download request is made
C11_OnlyFourteenDecimalDigits ==
    ~FourteenDecimalDigits(siret) =>
        /\ pc \in {"idle", "list", "select"}
        /\ sent = << >>
        /\ statusCalls = 0
        /\ urlCalls = << >>
        /\ downloads = 0

\* the current fetch_registry call met a failure that ends it: generation
\* failed (without a recovery), a status poll, a download URL lookup or a
\* download failed, the poll ran out of time or the job ended FAILED or CANCELED
FetchFailed ==
    fetchOutcome \in {"generate_error", "cooldown_miss", "status_error", "download_error",
                      "recover_error", "timeout", "job_failed", "exception"}

\* C12: once a fetch_registry call has met such a failure it makes no further
\* request: it has returned, and what it returned is the error result
C12_ErrorsAreTerminal ==
    FetchFailed =>
        /\ Returned
        /\ result = ErrorResult

\* C13: a run of the script that finds a token other than the one of the
\* session's last run starts with both session caches empty: the dataset
\* cache and the export cache
C13_TokenChangeClearsCaches ==
    [][(pc = "idle" /\ pc' # "idle" /\ token' # companies_token) =>
          /\ DOMAIN registry_cache' = {}
          /\ DOMAIN last_export_by_type' = {}]_vars

\* C14: bytes that are no spreadsheet do not stop the flow.  fetch_registry
\* returns and caches a payload that is no error, with 0 rows, no table and
\* the bytes as downloaded; the run gets to the download buttons, and the
\* button of such a register offers the bytes as downloaded
C14_UnparsedBytesPassThrough ==
    /\ (Returned /\ fetchOutcome = "payload" /\ ~file_bytes.xlsx) =>
          /\ result = [error |-> FALSE, bytes |-> file_bytes, rows |-> 0,
                       registry_type |-> registry_type, df |-> None]
          /\ cache_key \in DOMAIN registry_cache
          /\ registry_cache[cache_key] = result
    /\ runOutcome = "exported" =>
          /\ incoming.df = None => offered.INCOMING = incoming.bytes
          /\ outgoing.df = None => offered.OUTGOING = outgoing.bytes

\* the call of function fn has returned
Called(fn) == args.fn = fn /\ returned # None

\* the header, without the spaces around it and in lower case, is one of the aliases
MatchesAlias(header, aliases) ==
    \E k \in 1..Len(aliases) : lower(strip(header)) = aliases[k]

\* the rows of the table whose positions are in the set, in the order of the table
RowsAt(df, positions) ==
    [j \in 1..Cardinality(positions) |->
        df.rows[CHOOSE i \in positions : Cardinality({k \in positions : k <= i}) = j]]

\* the positions of the rows whose cell in column c is a date from start to end
RowsInPeriod(df, c, start, end) ==
    {i \in 1..Len(df.rows) :
        /\ df.rows[i][c].kind = "datetime"
        /\ DateLE(start, df.rows[i][c].date)
        /\ DateLE(df.rows[i][c].date, end)}

\* C15: filter_by_date returns an absent or empty table, and a table without
\* a date column, as it is; of a table with a column whose header matches a
\* date alias it returns the rows whose cell in such a column is a date d
\* with start <= d <= end, in the order of the table, and no other row
C15_FilterByDateKeepsPeriod ==
    Called("filter_by_date") =>
        LET df == args.df
            matching == {c \in 1..Len(df.columns) :
                            MatchesAlias(df.columns[c], DATE_COLUMN_CANDIDATES)}
        IN  IF df = None THEN returned.value = None
            ELSE IF Len(df.rows) = 0 \/ matching = {} THEN returned.value = df
            ELSE \E c \in matching :
                    /\ returned.value.columns = df.columns
                    /\ returned.value.rows =
                          RowsAt(df, RowsInPeriod(df, c, args.start_date, args.end_date))

\* C15, witness: of two rows, the one dated the last day of the period is
\* kept and the one that is no date is dropped
C15_Witness ==
    /\ Called("filter_by_date")
    /\ args.df # None
    /\ Len(args.df.rows) = 2
    /\ args.df.rows[1][1] = TextCell("n/a")
    /\ args.df.rows[2][1] = DateTimeCell(args.end_date, 23)
    /\ returned.value.rows = <<args.df.rows[2]>>

\* the first alias of the list that some header of the table matches, 0 when
\* there is none
EarliestAlias(df, aliases) ==
    IF \E k \in 1..Len(aliases), c \in 1..Len(df.columns) : lower(strip(df.columns[c])) = aliases[k]
        THEN CHOOSE k \in 1..Len(aliases) :
                /\ \E c \in 1..Len(df.columns) : lower(strip(df.columns[c])) = aliases[k]
                /\ \A j \in 1..(k - 1) :
                      \A c \in 1..Len(df.columns) : lower(strip(df.columns[c])) # aliases[j]
        ELSE 0

\* C16: filter_by_bsd_type takes as type column a column whose header
\* matches the earliest alias of BSD_TYPE_COLUMN_CANDIDATES that any header
\* matches, and keeps the rows whose value there is one of the selected
\* types; without such a column it returns the table as it is and lets the
\* caller know that no filter was applied
C16_FilterByTypeOrSignal ==
    Called("filter_by_bsd_type") =>
        LET df == args.df
            alias == EarliestAlias(df, BSD_TYPE_COLUMN_CANDIDATES)
            selected == {args.selected_types[k] : k \in 1..Len(args.selected_types)}
        IN  IF alias = 0
                THEN /\ returned.value = df
                     /\ returned.shown # << >>
                ELSE \E c \in 1..Len(df.columns) :
                        /\ lower(strip(df.columns[c])) = BSD_TYPE_COLUMN_CANDIDATES[alias]
                        /\ returned.value.columns = df.columns
                        /\ returned.value.rows =
                              RowsAt(df, {i \in 1..Len(df.rows) :
                                            /\ df.rows[i][c].kind = "text"
                                            /\ df.rows[i][c].text \in selected})

\* the number of places of the sequence that hold the value
Occurrences(seq, value) == Cardinality({i \in 1..Len(seq) : seq[i] = value})

\* (lower-cased name, identifier) of x is not after that of y
KeyNotAfter(x, y) ==
    \/ StrLess(lower(x.name), lower(y.name))
    \/ /\ lower(x.name) = lower(y.name)
       /\ (x.siret = y.siret \/ StrLess(x.siret, y.siret))

\* C17: list_my_companies returns the entries of the response that have an
\* identifier, as often as they occur and with "" for a missing name, in
\* ascending order of (lower-cased name, identifier); the entries without
\* identifier are not returned
C17_CompaniesFilteredAndSorted ==
    Called("list_my_companies") =>
        LET raw == args.companies
            out == returned.value
        IN  /\ Len(out) = Cardinality({i \in 1..Len(raw) : raw[i].siret # << >>})
            /\ \A i \in 1..Len(out) : out[i].siret # << >>
            /\ \A i \in 1..Len(raw) :
                  raw[i].siret # << >> =>
                      Occurrences(out, [name |-> raw[i].name, siret |-> raw[i].siret])
                          = Occurrences(raw, raw[i])
            /\ \A i \in 1..Len(out), j \in 1..Len(out) : i < j => KeyNotAfter(out[i], out[j])

\* C17, witness: three entries, one without identifier, come back as two, the
\* name "a" before the name "B"
C17_Witness ==
    /\ Called("list_my_companies")
    /\ Len(args.companies) = 3
    /\ args.companies[1].name = <<"B">>
    /\ args.companies[2].siret = << >>
    /\ args.companies[3].name = <<"a">> /\ args.companies[3].siret # << >>
    /\ Len(returned.value) = 2
    /\ returned.value[1].name = <<"a">>

\* the message tells of the cooldown
MentionsCooldown(message) ==
    \E i \in 1..(Len(message) - 3) : SubSeq(message, i, i + 3) = <<"moins", "de", "5", "minutes">>

\* both requests of generate_registry_export were sent and both raised
BothConventionsFailed == Len(sent) = 2 /\ sent[1].raised # "none" /\ sent[2].raised # "none"

\* C18: when both date-range requests of generate_registry_export fail, the
\* caller gets the error of the second one: a TrackdechetsError with the
\* second message, on which alone fetch_registry decides between the cooldown
\* handling and the plain error message, or the second request's own exception
C18_SecondErrorPropagated ==
    [][/\ (pc = "generate" /\ Len(sent) = 1 /\ pc' # "generate" /\ Len(sent') = 2
              /\ sent'[2].raised # "none") =>
              IF sent'[2].raised = "TrackdechetsError"
                  THEN /\ pc' = "generated"
                       /\ generated' = Raise("TrackdechetsError", sent'[2].message)
                  ELSE pc' = "idle" /\ runOutcome' = "exception"
       /\ (pc = "generated" /\ BothConventionsFailed /\ pc' # "generated") =>
              /\ (pc' = "recover_url" \/ fetchOutcome' = "cooldown_miss")
                     = MentionsCooldown(sent[2].message)
              /\ ~MentionsCooldown(sent[2].message) =>
                     /\ fetchOutcome' = "generate_error"
                     /\ shown' = ErrorMessage(sent[2].message)]_vars

\* C18, witness: the first request failed on the cooldown, the second for
\* another reason, and the second error is the one raised
C18_Witness ==
    /\ pc = "generated"
    /\ BothConventionsFailed
    /\ MentionsCooldown(sent[1].message)
    /\ ~MentionsCooldown(sent[2].message)
    /\ generated = Raise("TrackdechetsError", sent[2].message)

\* the bytes the server may serve for a download
ServedFiles == {response.data : response \in {f \in FileResponses(<< >>) : IsData(f)}}

\* the keys whose entry of the dataset cache this step wrote
WrittenKeys ==
    {k \in DOMAIN registry_cache' :
        k \notin DOMAIN registry_cache \/ registry_cache'[k] # registry_cache[k]}

\* this step ends a call of fetch_registry with an error result or an exception
FetchFails ==
    /\ pc \in {"generate", "generated", "poll", "url", "download", "recover_url",
               "recover_download"}
    /\ \/ pc' = "returned" /\ result' = ErrorResult
       \/ pc' = "idle" /\ fetchOutcome' = "exception"

\* C19: the dataset cache holds no error result; an entry is written only by
\* the step that downloaded the bytes it holds, under the key of the call; a
\* fetch that fails leaves no entry under its key, and a fetch that finds no
\* entry under its key starts with the generation
C19_CacheHoldsDownloadsOnly ==
    [][/\ \A k \in DOMAIN registry_cache' : ~registry_cache'[k].error
       /\ \A k \in WrittenKeys :
              /\ pc \in {"download", "recover_download"}
              /\ downloads' = downloads + 1
              /\ k = cache_key
              /\ registry_cache'[k].bytes = file_bytes'
              /\ file_bytes' \in ServedFiles
              /\ result' = registry_cache'[k]
       /\ FetchFails => cache_key \notin DOMAIN registry_cache'
       /\ (pc = "fetch" /\ cache_key \notin DOMAIN registry_cache) => pc' = "generate"]_vars

\* C19, witness: a run whose incoming registry is served from the cache, while
\* the outgoing one, whose job of an earlier run failed, is at the generation
\* step again
C19_Witness ==
    /\ pc = "generate"
    /\ registry_type = "OUTGOING"
    /\ <<siret, start_iso, end_iso, "INCOMING">> \in DOMAIN registry_cache
    /\ cache_key \notin DOMAIN registry_cache
    /\ RecoveryAllowed(last_export, siret, start_iso, end_iso)
    /\ jobStatus[JobOf(last_export.id)] = "FAILED"

\* C20: a call of fetch_registry that finds an entry under its key returns
\* that entry in one step that sends no request and changes neither cache;
\* and no step changes an entry that stays in the dataset cache, so that each
\* later call for the key returns the same payload
C20_CacheHitIsPure ==
    [][/\ (pc = "fetch" /\ cache_key \in DOMAIN registry_cache) =>
              /\ pc' = "returned"
              /\ result' = registry_cache[cache_key]
              /\ ~result'.error
              /\ UNCHANGED <<registry_cache, last_export_by_type>>
              /\ UNCHANGED <<sent, statusCalls, urlCalls, downloads, jobStatus, networkCalled>>
       /\ \A k \in DOMAIN registry_cache \cap DOMAIN registry_cache' :
              registry_cache'[k] = registry_cache[k]]_vars

\* C20, witness: a run in which the incoming registry came from the cache and
\* the outgoing one was just returned from it too, no request sent since the
\* run began
C20_Witness ==
    /\ pc = "returned"
    /\ registry_type = "OUTGOING"
    /\ fetchOutcome = "cached"
    /\ cache_key \in DOMAIN registry_cache
    /\ result = registry_cache[cache_key]
    /\ <<siret, start_iso, end_iso, "INCOMING">> \in DOMAIN registry_cache
    /\ incoming = registry_cache[<<siret, start_iso, end_iso, "INCOMING">>]
    /\ ~networkCalled

\* generate_registry_export returned a job without id
GeneratedWithoutId == generated.exc = "none" /\ generated.value.export_id = << >>

\* C21: every entry of the export-job cache has a non-empty job id; when the
\* generation returns a job with an empty id, fetch_registry returns an error
\* and neither writes the export-job cache, nor polls, nor downloads; and the
\* cooldown recovery, taken only with a non-empty cached id, leaves the entry
\* with the id it had
C21_ExportCacheIdsNonEmpty ==
    [][/\ \A t \in DOMAIN last_export_by_type' : last_export_by_type'[t].id # << >>
       /\ (pc = "generated" /\ GeneratedWithoutId) =>
              /\ pc' = "returned"
              /\ result' = ErrorResult
              /\ shown' = NoIdMessage
              /\ UNCHANGED <<last_export_by_type, registry_cache>>
              /\ UNCHANGED <<statusCalls, urlCalls, downloads>>
       /\ pc \in {"recover_url", "recover_download"} =>
              /\ registry_type \in DOMAIN last_export_by_type
              /\ last_export_by_type[registry_type].id # << >>
              /\ cachedId = last_export_by_type[registry_type].id
              /\ registry_type \in DOMAIN last_export_by_type'
              /\ last_export_by_type'[registry_type].id = last_export_by_type[registry_type].id]_vars

\* C21, witness: a job without id was returned for a registry whose entry of
\* the export-job cache holds the job of an earlier run; the call ended with
\* the error, without a poll, a URL request or a download
C21_Witness ==
    /\ pc = "returned"
    /\ fetchOutcome = "no_id"
    /\ result = ErrorResult
    /\ statusCalls = 0 /\ urlCalls = << >> /\ downloads = 0
    /\ registry_type \in DOMAIN last_export_by_type
    /\ last_export_by_type[registry_type].id # << >>

\* C21, the recovery: the file of the cached job was downloaded again and the
\* entry still holds that job
C21_RecoveryWitness ==
    /\ pc = "returned"
    /\ fetchOutcome = "payload"
    /\ reuse_download
    /\ registry_type \in DOMAIN last_export_by_type
    /\ last_export_by_type[registry_type].id = cachedId
    /\ cachedId # << >>

====
